---- MODULE Spec2Model ----
(***************************************************************************)
(* A model of screech's Patchbay (src/screech/src/patchbay.rs), Signal     *)
(* (src/screech/src/signal.rs), Module contract (src/screech/src/module.rs)*)
(* and Processor (src/screech/src/processor.rs).                           *)
(*                                                                         *)
(* Samples are f32 in the source.  The model counts them in units of       *)
(* 1/Scale, so that 0.8 is 1024 units and every division the bounded runs  *)
(* perform is exact.  Processor.mode and its two setters are left out: no  *)
(* other code reads the field.                                             *)
(***************************************************************************)
EXTENDS Integers, Sequences, FiniteSets, TLC

\* ------------------------------------------------------------------ bounds
\* Processor<_, MODULES, _>: the capacity N of the slot array and the id table.
MODULES == 3
\* Patchbay<PATCHPOINTS>: the capacity P of the sample buffer.
PATCHPOINTS == 3
\* process_modules calls explored in one behaviour.
MaxTicks == 3
\* The number of samples an oscillator is run for.
MaxSamples == 9

\* Units per 1.0 of an f32 sample.
Scale == 1280
\* Option::None of an Option<usize>.
NONE == -1

Slots == 0 .. (MODULES - 1)
Points == 0 .. (PATCHPOINTS - 1)

\* The greedy loop of order discovery is unbounded in the source; the model
\* stops a loop that is still making progress after ScanCap scans and flags it.
ScanCap == MODULES + 2

\* point() calls that return a PatchPoint, in one behaviour.
MaxHandles == PATCHPOINTS + 1

\* ----------------------------------------------------------------- signals
PatchPointSig(i) == [t |-> "PatchPoint", id |-> i, v |-> 0]
FixedSig(s) == [t |-> "Fixed", id |-> NONE, v |-> s]
NoneSig == [t |-> "None", id |-> NONE, v |-> 0]

\* ----------------------------------------------------------------- modules
\* A module value.  tag is the identity of the value (a Rust module is moved,
\* never copied); out is the index of the PatchPoint it owns, NONE for Dummy.
NoModule == [tag |-> 0, kind |-> "None", value |-> 0, x |-> NoneSig, y |-> NoneSig, out |-> NONE]
Constant(tag, value, out) == [tag |-> tag, kind |-> "Constant", value |-> value, x |-> NoneSig, y |-> NoneSig, out |-> out]
Divide(tag, value, input, out) == [tag |-> tag, kind |-> "Divide", value |-> value, x |-> input, y |-> NoneSig, out |-> out]
Add(tag, x, y, out) == [tag |-> tag, kind |-> "Add", value |-> 0, x |-> x, y |-> y, out |-> out]
Dummy(tag) == [tag |-> tag, kind |-> "Dummy", value |-> 0, x |-> NoneSig, y |-> NoneSig, out |-> NONE]
\* A user module whose is_ready is always false and whose process writes value.
Stubborn(tag, value, out) == [tag |-> tag, kind |-> "Stubborn", value |-> value, x |-> NoneSig, y |-> NoneSig, out |-> out]

VARIABLES
    modules,      \* Processor.modules: slot -> module or NoModule
    module_ids,   \* Processor.module_ids: external id -> slot or NONE
    order_set,    \* Processor.order_set
    buffer,       \* Patchbay.buffer: point -> sample
    marks,        \* Patchbay.marks: point -> BOOLEAN
    handles,      \* point -> number of PatchPoint values point() has returned for it
    wiring,       \* the module values the caller has built: tag -> module
    ticks,        \* number of process_modules calls so far
    last          \* what the last operation was, what it returned and what it did

vars == <<modules, module_ids, order_set, buffer, marks, handles, wiring, ticks, last>>

\* ---------------------------------------------------------------- patchbay
Get(buf, signal) ==
    CASE signal.t = "PatchPoint" -> buf[signal.id]
      [] signal.t = "Fixed" -> signal.v
      [] OTHER -> 0

Check(mk, signal) ==
    CASE signal.t = "PatchPoint" -> mk[signal.id]
      [] OTHER -> TRUE

SetPoint(pb, id, sample) ==
    [buffer |-> [pb.buffer EXCEPT ![id] = sample],
     marks |-> [pb.marks EXCEPT ![id] = TRUE]]

ClearedMarks == [i \in Points |-> FALSE]

\* The lowest index whose mark is false, NONE when every mark is true.
FirstUnmarked(mk) ==
    IF \E i \in Points : ~mk[i]
    THEN CHOOSE i \in Points : ~mk[i] /\ \A j \in Points : j < i => mk[j]
    ELSE NONE

\* ---------------------------------------------------------- module contract
IsReady(m, pb) ==
    CASE m.kind = "Divide" -> Check(pb.marks, m.x)
      [] m.kind = "Add" -> Check(pb.marks, m.x) /\ Check(pb.marks, m.y)
      [] m.kind = "Stubborn" -> FALSE
      [] OTHER -> TRUE

ProcessModule(m, pb) ==
    CASE m.kind = "Constant" -> SetPoint(pb, m.out, m.value)
      [] m.kind = "Stubborn" -> SetPoint(pb, m.out, m.value)
      [] m.kind = "Divide" -> SetPoint(pb, m.out, Get(pb.buffer, m.x) \div m.value)
      [] m.kind = "Add" -> SetPoint(pb, m.out, Get(pb.buffer, m.x) + Get(pb.buffer, m.y))
      [] OTHER -> pb

\* The signals process reads.
Inputs(m) ==
    CASE m.kind = "Divide" -> {m.x}
      [] m.kind = "Add" -> {m.x, m.y}
      [] OTHER -> {}

\* The points process reads.
InputPoints(m) == {s.id : s \in {r \in Inputs(m) : r.t = "PatchPoint"}}

Writes(m) == m.kind \in {"Constant", "Stubborn", "Divide", "Add"}


\* --------------------------------------------------------------- processor
EmptySlots == [i \in Slots |-> NoModule]
UnboundIds == [i \in Slots |-> NONE]

\* Processor::new binding every id, the ids of empty slots too.
NewIds_All(mods) == [i \in Slots |-> i]

\* Processor::new: id i is bound to slot i for the occupied slots i.
NewIds(mods) == [i \in Slots |-> IF mods[i] # NoModule THEN i ELSE NONE]

\* get_module reading the slot numbered like the id.
GetModule_Slot(mods, ids, index) == mods[index]

GetModule(mods, ids, index) ==
    IF ids[index] = NONE THEN NoModule ELSE mods[ids[index]]

\* The highest unbound id instead of the lowest.
FirstUnboundId_Last(ids) ==
    IF \E i \in Slots : ids[i] = NONE
    THEN CHOOSE i \in Slots : ids[i] = NONE /\ \A j \in Slots : j > i => ids[j] # NONE
    ELSE NONE

\* The first i of 0..MODULES with module_ids[i].is_none(), NONE when there is none.
FirstUnboundId(ids) ==
    IF \E i \in Slots : ids[i] = NONE
    THEN CHOOSE i \in Slots : ids[i] = NONE /\ \A j \in Slots : j < i => ids[j] # NONE
    ELSE NONE

\* Mutant: the last empty slot instead of the first.
FirstEmptySlot_Last(mods) ==
    IF \E i \in Slots : mods[i] = NoModule
    THEN CHOOSE i \in Slots : mods[i] = NoModule /\ \A j \in Slots : j > i => mods[j] # NoModule
    ELSE NONE

\* The first m of 0..MODULES with modules[m].is_none(), NONE when there is none.
FirstEmptySlot(mods) ==
    IF \E i \in Slots : mods[i] = NoModule
    THEN CHOOSE i \in Slots : mods[i] = NoModule /\ \A j \in Slots : j < i => mods[j] # NoModule
    ELSE NONE

\* What one process_modules call carries along: the patchbay, the bookkeeping
\* of order discovery, and a record of the process calls it made.
\*   order   the tags of the modules in the order process was called
\*   written the points set during the call so far
\*   stale   the tags of the modules that read a point not yet set in the call
\*   reads   <<tag, point, value>> for every point a process call read
\*   asked   <<tag, answer>> for every is_ready call, in call order
\* Mutant: the call starts from a zeroed sample buffer.
StartRun_Zeroed(buf, mk) ==
    [pb |-> [buffer |-> [i \in Points |-> 0], marks |-> mk],
     processed |-> [i \in Slots |-> FALSE],
     new_order |-> [i \in Slots |-> NONE],
     new_index |-> 0,
     updated_modules |-> 0,
     scans |-> 0,
     diverged |-> FALSE,
     order |-> <<>>,
     written |-> {},
     stale |-> {},
     reads |-> {},
     asked |-> <<>>]

StartRun(buf, mk) ==
    [pb |-> [buffer |-> buf, marks |-> mk],
     processed |-> [i \in Slots |-> FALSE],
     new_order |-> [i \in Slots |-> NONE],
     new_index |-> 0,
     updated_modules |-> 0,
     scans |-> 0,
     diverged |-> FALSE,
     order |-> <<>>,
     written |-> {},
     stale |-> {},
     reads |-> {},
     asked |-> <<>>]

\* m.process(patchbay), with the record of the call.
CallProcess(st, m) ==
    [st EXCEPT !.pb = ProcessModule(m, st.pb),
               !.order = Append(@, m.tag),
               !.stale = IF InputPoints(m) \subseteq st.written THEN @ ELSE @ \cup {m.tag},
               !.written = IF Writes(m) THEN @ \cup {m.out} ELSE @,
               !.reads = @ \cup {<<m.tag, p, st.pb.buffer[p]>> : p \in InputPoints(m)}]

\* m.is_ready(patchbay), with the record of the call.
Ask(st, m) ==
    [st EXCEPT !.asked = Append(@, <<m.tag, IsReady(m, st.pb)>>)]

\* The cached path runs the slots from the highest index down.
RECURSIVE CachedRun_Reverse(_, _, _)
CachedRun_Reverse(st, mods, i) ==
    IF i = MODULES
    THEN st
    ELSE LET m == mods[MODULES - 1 - i]
         IN  CachedRun_Reverse(IF m # NoModule THEN CallProcess(st, m) ELSE st,
                               mods, i + 1)

\* Mutant: the cached path asks is_ready and passes over a module that is
\* not ready.
RECURSIVE CachedRun_IfReady(_, _, _)
CachedRun_IfReady(st, mods, i) ==
    IF i = MODULES \/ mods[i] = NoModule
    THEN st
    ELSE CachedRun_IfReady(IF IsReady(mods[i], st.pb)
                           THEN CallProcess(Ask(st, mods[i]), mods[i])
                           ELSE Ask(st, mods[i]),
                           mods, i + 1)

\* The cached path: slots in index order, stopping at the first empty one.
RECURSIVE CachedRun(_, _, _)
CachedRun(st, mods, i) ==
    IF i = MODULES \/ mods[i] = NoModule
    THEN st
    ELSE CachedRun(CallProcess(st, mods[i]), mods, i + 1)

\* Mutant: the scan processes a module without asking is_ready.
GreedyStep_NoReady(st, mods, ids, index) ==
    LET m == GetModule(mods, ids, index) IN
    IF ~st.processed[index] /\ m # NoModule
    THEN [CallProcess(st, m) EXCEPT !.processed[index] = TRUE,
                                    !.new_order[index] = st.new_index,
                                    !.new_index = @ + 1,
                                    !.updated_modules = @ + 1]
    ELSE st

\* Mutant: the scan does not mark the module as processed.
GreedyStep_NoMark(st, mods, ids, index) ==
    LET m == GetModule(mods, ids, index) IN
    IF ~st.processed[index] /\ m # NoModule
    THEN IF IsReady(m, st.pb)
         THEN [CallProcess(Ask(st, m), m) EXCEPT
                   !.new_order[index] = st.new_index,
                   !.new_index = IF @ + 1 < MODULES THEN @ + 1 ELSE @,
                   !.updated_modules = @ + 1]
         ELSE Ask(st, m)
    ELSE st

\* One iteration of the greedy scan's for loop.
GreedyStep(st, mods, ids, index) ==
    LET m == GetModule(mods, ids, index) IN
    IF ~st.processed[index] /\ m # NoModule
    THEN IF IsReady(m, st.pb)
         THEN [CallProcess(Ask(st, m), m) EXCEPT !.processed[index] = TRUE,
                                                 !.new_order[index] = st.new_index,
                                                 !.new_index = @ + 1,
                                                 !.updated_modules = @ + 1]
         ELSE Ask(st, m)
    ELSE st

\* Mutant: the scan runs from the highest id down.
RECURSIVE GreedyScan_Reverse(_, _, _, _)
GreedyScan_Reverse(st, mods, ids, index) ==
    IF index = MODULES
    THEN st
    ELSE GreedyScan_Reverse(GreedyStep(st, mods, ids, MODULES - 1 - index),
                            mods, ids, index + 1)

\* One scan of the greedy loop: for index in 0..MODULES.
RECURSIVE GreedyScan(_, _, _, _)
GreedyScan(st, mods, ids, index) ==
    IF index = MODULES
    THEN st
    ELSE GreedyScan(GreedyStep(st, mods, ids, index), mods, ids, index + 1)

\* The greedy loop leaves after its first scan.
GreedyLoop_OneScan(st, mods, ids) ==
    LET s1 == GreedyScan([st EXCEPT !.updated_modules = 0], mods, ids, 0)
    IN  [s1 EXCEPT !.scans = @ + 1]

\* loop { scan; if updated_modules == 0 { break } }
RECURSIVE GreedyLoop(_, _, _)
GreedyLoop(st, mods, ids) ==
    LET s1 == GreedyScan([st EXCEPT !.updated_modules = 0], mods, ids, 0)
        s2 == [s1 EXCEPT !.scans = @ + 1]
    IN  IF s2.updated_modules = 0 THEN s2
        ELSE IF s2.scans >= ScanCap THEN [s2 EXCEPT !.diverged = TRUE]
        ELSE GreedyLoop(s2, mods, ids)

\* The first n scans of the greedy loop: the run before the first scan and
\* after each of the n scans, n + 1 states in all.
RECURSIVE AfterScans(_, _, _, _)
AfterScans(st, mods, ids, n) ==
    IF n = 0
    THEN <<st>>
    ELSE LET sts == AfterScans(st, mods, ids, n - 1)
         IN  Append(sts, GreedyScan([sts[n] EXCEPT !.updated_modules = 0], mods, ids, 0))

\* The residual pass asks is_ready like the greedy scan.
ResidualStep_IfReady(st, mods, ids, index) ==
    LET m == GetModule(mods, ids, index) IN
    IF ~st.processed[index] /\ m # NoModule
    THEN IF IsReady(m, st.pb)
         THEN [CallProcess(Ask(st, m), m) EXCEPT !.new_order[index] = st.new_index,
                                                 !.new_index = @ + 1]
         ELSE Ask(st, m)
    ELSE st

\* Mutant: the residual pass processes the module without giving it a place
\* in the new order.
ResidualStep_NoSlot(st, mods, ids, index) ==
    LET m == GetModule(mods, ids, index) IN
    IF ~st.processed[index] /\ m # NoModule
    THEN CallProcess(st, m)
    ELSE st

\* One iteration of the residual pass's for loop.
ResidualStep(st, mods, ids, index) ==
    LET m == GetModule(mods, ids, index) IN
    IF ~st.processed[index] /\ m # NoModule
    THEN [CallProcess(st, m) EXCEPT !.new_order[index] = st.new_index,
                                    !.new_index = @ + 1]
    ELSE st

\* Mutant: the residual pass runs from the highest id down.
RECURSIVE ResidualPass_Reverse(_, _, _, _)
ResidualPass_Reverse(st, mods, ids, index) ==
    IF index = MODULES
    THEN st
    ELSE ResidualPass_Reverse(ResidualStep(st, mods, ids, MODULES - 1 - index),
                              mods, ids, index + 1)

RECURSIVE ResidualPass(_, _, _, _)
ResidualPass(st, mods, ids, index) ==
    IF index = MODULES
    THEN st
    ELSE ResidualPass(ResidualStep(st, mods, ids, index), mods, ids, index + 1)

\* Mutant: the reorder loop leaves every module in its old slot.
ReorderStep_KeepSlot(r, new_order, index) ==
    IF r.ids[index] # NONE
    THEN LET old_id == r.ids[index]
         IN  [mods |-> [r.mods EXCEPT ![old_id] = NoModule],
              cache |-> [r.cache EXCEPT ![old_id] = r.mods[old_id]],
              ids |-> r.ids]
    ELSE r

\* Mutant: the reorder loop moves the module and keeps the old id binding.
ReorderStep_StaleIds(r, new_order, index) ==
    IF r.ids[index] # NONE
    THEN LET old_id == r.ids[index]
             new_id == IF new_order[index] # NONE THEN new_order[index] ELSE old_id
         IN  [mods |-> [r.mods EXCEPT ![old_id] = NoModule],
              cache |-> [r.cache EXCEPT ![new_id] = r.mods[old_id]],
              ids |-> r.ids]
    ELSE r

\* The reorder loop fills the cache from the highest slot down.
ReorderStep_Mirror(r, new_order, index) ==
    IF r.ids[index] # NONE
    THEN LET old_id == r.ids[index]
             new_id == IF new_order[index] # NONE
                       THEN MODULES - 1 - new_order[index] ELSE old_id
         IN  [mods |-> [r.mods EXCEPT ![old_id] = NoModule],
              cache |-> [r.cache EXCEPT ![new_id] = r.mods[old_id]],
              ids |-> [r.ids EXCEPT ![index] = new_id]]
    ELSE r

\* The reorder loop, on r = [mods, cache, ids]: modules_cache[new_id] =
\* self.modules[old_id].take(); self.module_ids[index] = Some(new_id).
ReorderStep(r, new_order, index) ==
    IF r.ids[index] # NONE
    THEN LET old_id == r.ids[index]
             new_id == IF new_order[index] # NONE THEN new_order[index] ELSE old_id
         IN  [mods |-> [r.mods EXCEPT ![old_id] = NoModule],
              cache |-> [r.cache EXCEPT ![new_id] = r.mods[old_id]],
              ids |-> [r.ids EXCEPT ![index] = new_id]]
    ELSE r

RECURSIVE Reorder(_, _, _)
Reorder(r, new_order, index) ==
    IF index = MODULES
    THEN r
    ELSE Reorder(ReorderStep(r, new_order, index), new_order, index + 1)

\* order_and_process_modules up to the end of the residual pass.
DiscoveryRun(buf, mk, mods, ids) ==
    ResidualPass(GreedyLoop(StartRun(buf, ClearedMarks), mods, ids), mods, ids, 0)


\* ------------------------------------------- the operations as functions
\* The operations on a processor and its patchbay given as a value
\* p = [modules, module_ids, order_set, buffer, marks], for following two
\* processors side by side.
Here ==
    [modules |-> modules, module_ids |-> module_ids, order_set |-> order_set,
     buffer |-> buffer, marks |-> marks]

\* Processor::process_modules
TickOf(p) ==
    IF ~p.order_set
    THEN LET st == DiscoveryRun(p.buffer, p.marks, p.modules, p.module_ids)
             r  == Reorder([mods |-> p.modules, cache |-> EmptySlots,
                            ids |-> p.module_ids], st.new_order, 0)
         IN  [modules |-> r.cache, module_ids |-> r.ids, order_set |-> TRUE,
              buffer |-> st.pb.buffer, marks |-> st.pb.marks]
    ELSE LET st == CachedRun(StartRun(p.buffer, p.marks), p.modules, 0)
         IN  [p EXCEPT !.buffer = st.pb.buffer, !.marks = st.pb.marks]

\* Processor::take_modules; the array it returns is p.modules.
TakeOf(p) == [p EXCEPT !.modules = EmptySlots, !.module_ids = UnboundIds]

\* Processor::insert_module
InsertOf(p, m) ==
    LET i == FirstUnboundId(p.module_ids)
        s == FirstEmptySlot(p.modules)
    IN  IF i # NONE /\ s # NONE
        THEN [p EXCEPT !.modules[s] = m, !.module_ids[i] = s, !.order_set = FALSE]
        ELSE p

\* insert_module for every module of the array arr, from index i on.
RECURSIVE ReinsertFrom(_, _, _)
ReinsertFrom(p, arr, i) ==
    IF i = MODULES THEN p
    ELSE ReinsertFrom(IF arr[i] # NoModule THEN InsertOf(p, arr[i]) ELSE p,
                      arr, i + 1)

\* let taken = processor.take_modules(); then insert_module for each module of
\* taken, in the order of the array.
RoundTrip(p) == ReinsertFrom(TakeOf(p), p.modules, 0)

\* The sample buffers after each of the next k process_modules calls.
RECURSIVE BuffersAfter(_, _)
BuffersAfter(p, k) ==
    IF k = 0 THEN <<>>
    ELSE LET q == TickOf(p) IN <<q.buffer>> \o BuffersAfter(q, k - 1)


\* ----------------------------------------------------------------- wirings
\* The modules of tests::process_should_run_modules_in_the_correct_order:
\* constant writes point 0, divide1 point 1, divide2 point 2.
ChainWiring ==
    (1 :> Divide(1, 2, PatchPointSig(1), 2)) @@
    (2 :> Divide(2, 4, PatchPointSig(0), 1)) @@
    (3 :> Constant(3, (8 * Scale) \div 10, 0))

\* The chain and a second Constant, 0.4, built on the Constant's point to take
\* its place.
ReplaceWiring == ChainWiring @@ (4 :> Constant(4, (4 * Scale) \div 10, 0))

\* The modules of tests::process_should_allow_circular_connections:
\* add writes point 0, constant point 1, divide point 2.
CircularWiring ==
    (1 :> Add(1, PatchPointSig(1), PatchPointSig(2), 0)) @@
    (2 :> Constant(2, (8 * Scale) \div 10, 1)) @@
    (3 :> Divide(3, 2, PatchPointSig(0), 2))

\* A Dummy, a Divide reading a point nobody writes, and a Divide reading that Divide.
DanglingWiring ==
    (1 :> Divide(1, 2, PatchPointSig(1), 0)) @@
    (2 :> Divide(2, 2, PatchPointSig(2), 1)) @@
    (3 :> Dummy(3))

\* One Dummy more than the processor has slots, as the Dummy processors of
\* tests::process_should_allow_adding_modules.
DummyWiring == [t \in 1 .. (MODULES + 1) |-> Dummy(t)]

Scenarios == {ChainWiring, CircularWiring, DanglingWiring, DummyWiring}

\* The points the modules of a wiring own: point() returned each once.
OwnedPoints(w) == {w[t].out : t \in DOMAIN w} \ {NONE}
Owners(w, i) == Cardinality({t \in DOMAIN w : w[t].out = i})

\* Processor::new([Some(w[1]), Some(w[2]), Some(w[3]), None, ...])
ArrayOf(w) == [i \in Slots |-> IF (i + 1) \in DOMAIN w THEN w[i + 1] ELSE NoModule]

RECURSIVE SumTo(_, _)
SumTo(h, i) == IF i < 0 THEN 0 ELSE h[i] + SumTo(h, i - 1)
\* The number of PatchPoint values point() has returned.
HandleCount(h) == SumTo(h, PATCHPOINTS - 1)

\* Processor::new([None, Some(w[1]), Some(w[2]), ...]): an array with a gap in
\* front, as in tests::process_should_allow_getting_modules.
GappedArrayOf(w) ==
    [i \in Slots |-> IF i > 0 /\ i \in DOMAIN w THEN w[i] ELSE NoModule]

\* ------------------------------------------------------------------ record
NoLast ==
    [op |-> "init", tag |-> 0, id |-> NONE, res |-> NONE, path |-> "none",
     order |-> <<>>, written |-> {}, stale |-> {}, reads |-> {},
     scans |-> 0, diverged |-> FALSE, run |-> <<>>,
     mods0 |-> EmptySlots, ids0 |-> UnboundIds, set0 |-> FALSE,
     buf0 |-> [i \in Points |-> 0], marks0 |-> ClearedMarks,
     panicked |-> FALSE, binding |-> [id \in Slots |-> 0],
     taken |-> EmptySlots,
     fresh |-> FALSE, points |-> <<>>, paired |-> FALSE, free0 |-> 0,
     residual |-> {}, replaced |-> FALSE, samples |-> <<>>]

\* The record of an operation: its name and the state it started from.  The
\* field binding is carried from call to call: the tag of the module each id
\* was last handed out for by Processor::new, insert_module or replace_module,
\* 0 for an id that was never handed out or that take_modules released.
Before(op) ==
    [NoLast EXCEPT !.op = op, !.mods0 = modules, !.ids0 = module_ids,
                   !.set0 = order_set, !.buf0 = buffer, !.marks0 = marks,
                   !.binding = last.binding]

\* The module values the caller holds: those not inside the processor.
Held == {wiring[t] : t \in DOMAIN wiring} \ {modules[i] : i \in Slots}

\* The tags inserted since the processor was last empty, when nothing but
\* successful insert_module calls happened since; <<>> otherwise.
InsertRun(tag) ==
    IF modules = EmptySlots /\ module_ids = UnboundIds THEN <<tag>>
    ELSE IF last.op = "insert" /\ last.run # <<>> THEN Append(last.run, tag)
    ELSE <<>>

\* ----------------------------------------------------------------- actions
\* insert_module resetting the order cache before it looks for room.
InsertModule_Invalidate(m) ==
    LET i == FirstUnboundId(module_ids)
        s == FirstEmptySlot(modules)
    IN  /\ m \in Held
        /\ order_set' = FALSE
        /\ IF i # NONE /\ s # NONE
           THEN /\ modules' = [modules EXCEPT ![s] = m]
                /\ module_ids' = [module_ids EXCEPT ![i] = s]
                /\ last' = [Before("insert") EXCEPT !.tag = m.tag, !.res = i,
                                !.run = InsertRun(m.tag), !.binding[i] = m.tag]
           ELSE /\ UNCHANGED <<modules, module_ids>>
                /\ last' = [Before("insert") EXCEPT !.tag = m.tag, !.res = NONE]
        /\ UNCHANGED <<buffer, marks, handles, wiring, ticks>>

\* Processor::insert_module
InsertModule(m) ==
    LET i == FirstUnboundId(module_ids)
        s == FirstEmptySlot(modules)
    IN  /\ m \in Held
        /\ IF i # NONE /\ s # NONE
           THEN /\ modules' = [modules EXCEPT ![s] = m]
                /\ module_ids' = [module_ids EXCEPT ![i] = s]
                /\ order_set' = FALSE
                /\ last' = [Before("insert") EXCEPT !.tag = m.tag, !.res = i,
                                !.run = InsertRun(m.tag), !.binding[i] = m.tag]
           ELSE /\ UNCHANGED <<modules, module_ids, order_set>>
                /\ last' = [Before("insert") EXCEPT !.tag = m.tag, !.res = NONE]
        /\ UNCHANGED <<buffer, marks, handles, wiring, ticks>>

\* replace_module storing the module of an unbound id in the slot numbered
\* like the id.
ReplaceModule_AtIndex(m, index) ==
    /\ m \in Held
    /\ order_set' = FALSE
    /\ IF module_ids[index] # NONE
       THEN /\ modules' = [modules EXCEPT ![module_ids[index]] = m]
            /\ UNCHANGED module_ids
       ELSE /\ modules' = [modules EXCEPT ![index] = m]
            /\ module_ids' = [module_ids EXCEPT ![index] = index]
    /\ last' = [Before("replace") EXCEPT !.tag = m.tag, !.id = index,
                    !.binding[index] = m.tag]
    /\ UNCHANGED <<buffer, marks, handles, wiring, ticks>>

\* replace_module leaving order_set as it is.
ReplaceModule_KeepCache(m, index) ==
    LET s == FirstEmptySlot(modules) IN
    /\ m \in Held
    /\ IF module_ids[index] # NONE
       THEN /\ modules' = [modules EXCEPT ![module_ids[index]] = m]
            /\ UNCHANGED module_ids
       ELSE IF s # NONE
       THEN /\ modules' = [modules EXCEPT ![s] = m]
            /\ module_ids' = [module_ids EXCEPT ![index] = s]
       ELSE UNCHANGED <<modules, module_ids>>
    /\ last' = [Before("replace") EXCEPT !.tag = m.tag, !.id = index,
                    !.binding[index] = m.tag]
    /\ UNCHANGED <<order_set, buffer, marks, handles, wiring, ticks>>

\* Processor::replace_module
ReplaceModule(m, index) ==
    LET s == FirstEmptySlot(modules) IN
    /\ m \in Held
    /\ order_set' = FALSE
    /\ IF module_ids[index] # NONE
       THEN /\ modules' = [modules EXCEPT ![module_ids[index]] = m]
            /\ UNCHANGED module_ids
       ELSE IF s # NONE
       THEN /\ modules' = [modules EXCEPT ![s] = m]
            /\ module_ids' = [module_ids EXCEPT ![index] = s]
       ELSE UNCHANGED <<modules, module_ids>>
    /\ last' = [Before("replace") EXCEPT !.tag = m.tag, !.id = index,
                    !.binding[index] = m.tag]
    /\ UNCHANGED <<buffer, marks, handles, wiring, ticks>>

\* take_modules leaving the id table as it was.
TakeModules_KeepIds ==
    /\ modules' = EmptySlots
    /\ last' = [Before("take") EXCEPT !.binding = NoLast.binding,
                    !.taken = [i \in Slots |-> modules[i]]]
    /\ UNCHANGED <<module_ids, order_set, buffer, marks, handles, wiring, ticks>>

\* Processor::take_modules: the returned array is last'.taken, filled slot by
\* slot with modules[i].take().
TakeModules ==
    /\ modules' = EmptySlots
    /\ module_ids' = UnboundIds
    /\ last' = [Before("take") EXCEPT !.binding = NoLast.binding,
                    !.taken = [i \in Slots |-> modules[i]]]
    /\ UNCHANGED <<order_set, buffer, marks, handles, wiring, ticks>>

\* Processor::get_module and Processor::get_module_mut (the same lookup, by
\* shared or by exclusive reference) for an index of the caller's choice.  An
\* index outside module_ids is an out-of-bounds array access: the call panics.
\* The tag of the module returned is last'.tag, 0 for Option::None.
Lookup(index) ==
    /\ last' = [NoLast EXCEPT !.op = "get_module", !.id = index,
                    !.binding = last.binding,
                    !.panicked = (index \notin DOMAIN module_ids),
                    !.tag = IF index \in DOMAIN module_ids
                            THEN GetModule(modules, module_ids, index).tag
                            ELSE 0]
    /\ UNCHANGED <<modules, module_ids, order_set, buffer, marks, handles,
                   wiring, ticks>>

\* Processor::clear_cache
ClearCache ==
    /\ order_set' = FALSE
    /\ last' = Before("clear_cache")
    /\ UNCHANGED <<modules, module_ids, buffer, marks, handles, wiring, ticks>>

\* The tags of the modules the residual pass ran: those bound to an id the
\* greedy loop left with processed[id] false.
ResidualTags(st, mods, ids) ==
    {GetModule(mods, ids, index).tag :
        index \in {i \in Slots : ~st.processed[i] /\ GetModule(mods, ids, i) # NoModule}}

\* The state order_and_process_modules leaves, from the run st.
AfterDiscovery(st) ==
    LET r == Reorder([mods |-> modules, cache |-> EmptySlots, ids |-> module_ids],
                     st.new_order, 0)
    IN  /\ modules' = r.cache
        /\ module_ids' = r.ids
        /\ order_set' = TRUE
        /\ buffer' = st.pb.buffer
        /\ marks' = st.pb.marks
        /\ last' = [Before("process") EXCEPT !.path = "discovery", !.order = st.order,
                        !.written = st.written, !.stale = st.stale, !.reads = st.reads,
                        !.scans = st.scans, !.diverged = st.diverged,
                        !.residual = ResidualTags(st, modules, module_ids),
                        !.replaced = (last.op = "replace")]

\* The state the cached path leaves, from the run st.
AfterCached(st) ==
    /\ buffer' = st.pb.buffer
    /\ marks' = st.pb.marks
    /\ last' = [Before("process") EXCEPT !.path = "cached", !.order = st.order,
                    !.written = st.written, !.stale = st.stale, !.reads = st.reads,
                    !.replaced = (last.op = "replace")]
    /\ UNCHANGED <<modules, module_ids, order_set>>

\* Processor::process_modules
ProcessModules ==
    /\ ticks < MaxTicks
    /\ ticks' = ticks + 1
    /\ IF ~order_set
       THEN AfterDiscovery(DiscoveryRun(buffer, marks, modules, module_ids))
       ELSE AfterCached(CachedRun(StartRun(buffer, marks), modules, 0))
    /\ UNCHANGED <<handles, wiring>>

\* The results of the point() calls since Patchbay::new, while nothing but
\* point, set and get was called on the patchbay (last.fresh); the record
\* stops growing two calls after the patchbay is exhausted.
PointsSoFar(i) ==
    IF last.fresh /\ Len(last.points) <= PATCHPOINTS
    THEN Append(last.points, i)
    ELSE last.points

\* point() handing out an index without marking it.
Point_NoMark ==
    LET i == FirstUnmarked(marks) IN
    /\ HandleCount(handles) < MaxHandles
    /\ IF i # NONE
       THEN /\ handles' = [handles EXCEPT ![i] = @ + 1]
            /\ UNCHANGED marks
       ELSE UNCHANGED <<marks, handles>>
    /\ last' = [Before("point") EXCEPT !.res = i, !.fresh = last.fresh,
                    !.points = PointsSoFar(i)]
    /\ UNCHANGED <<modules, module_ids, order_set, buffer, wiring, ticks>>

\* Patchbay::point: the returned index is last'.res, NONE for Option::None.
Point ==
    LET i == FirstUnmarked(marks) IN
    /\ HandleCount(handles) < MaxHandles
    /\ IF i # NONE
       THEN /\ marks' = [marks EXCEPT ![i] = TRUE]
            /\ handles' = [handles EXCEPT ![i] = @ + 1]
       ELSE UNCHANGED <<marks, handles>>
    /\ last' = [Before("point") EXCEPT !.res = i, !.fresh = last.fresh,
                    !.points = PointsSoFar(i)]
    /\ UNCHANGED <<modules, module_ids, order_set, buffer, wiring, ticks>>

\* The number of point() calls that can still succeed: the unmarked indices.
Free(mk) == Cardinality({i \in Points : ~mk[i]})

\* The caller drops a PatchPoint it holds.  PatchPoint has no Drop
\* implementation and no reference to the patchbay: nothing of the patchbay
\* changes.  last'.paired says that the call before was the point() that
\* returned this index, last'.free0 what was free before that call.
DropPoint(i) ==
    /\ handles[i] > Owners(wiring, i)
    /\ handles' = [handles EXCEPT ![i] = @ - 1]
    /\ last' = [Before("drop") EXCEPT !.id = i,
                    !.paired = (last.op = "point" /\ last.res = i),
                    !.free0 = IF last.op = "point" /\ last.res = i
                              THEN Free(last.marks0) ELSE Free(marks)]
    /\ UNCHANGED <<modules, module_ids, order_set, buffer, marks, wiring, ticks>>

\* set storing the sample without marking the point.
SetSample_NoMark(i, sample) ==
    /\ handles[i] > Owners(wiring, i)
    /\ buffer' = [buffer EXCEPT ![i] = sample]
    /\ last' = [Before("set") EXCEPT !.id = i, !.res = sample,
                    !.fresh = last.fresh, !.points = last.points]
    /\ UNCHANGED <<modules, module_ids, order_set, marks, handles, wiring, ticks>>

\* Patchbay::set by the caller, through a PatchPoint no module owns.
SetSample(i, sample) ==
    /\ handles[i] > Owners(wiring, i)
    /\ buffer' = [buffer EXCEPT ![i] = sample]
    /\ marks' = [marks EXCEPT ![i] = TRUE]
    /\ last' = [Before("set") EXCEPT !.id = i, !.res = sample,
                    !.fresh = last.fresh, !.points = last.points]
    /\ UNCHANGED <<modules, module_ids, order_set, handles, wiring, ticks>>

\* clear_marks zeroing the samples together with the marks.
ClearMarks_Reset ==
    /\ marks' = ClearedMarks
    /\ buffer' = [i \in Points |-> 0]
    /\ last' = Before("clear_marks")
    /\ UNCHANGED <<modules, module_ids, order_set, handles, wiring, ticks>>

\* Patchbay::clear_marks by the caller.
ClearMarks ==
    /\ marks' = ClearedMarks
    /\ last' = Before("clear_marks")
    /\ UNCHANGED <<modules, module_ids, order_set, buffer, handles, wiring, ticks>>

\* ---------------------------------------------------------- specifications
\* A patchbay from which point() was called once for every point the modules of
\* w own, w's modules built around them, and a processor holding mods.
Setup(w, mods) ==
    /\ wiring = w
    /\ modules = mods
    /\ module_ids = NewIds(mods)
    /\ order_set = FALSE
    /\ buffer = [i \in Points |-> 0]
    /\ marks = [i \in Points |-> i \in OwnedPoints(w)]
    /\ handles = [i \in Points |-> Owners(w, i)]
    /\ ticks = 0
    /\ last = [NoLast EXCEPT !.binding = [id \in Slots |-> mods[id].tag],
                             !.fresh = (OwnedPoints(w) = {})]

\* The processor's operations on the wirings of the tests: Processor::empty(),
\* Processor::new of the test's array, or of an array with a gap.
Init ==
    \E w \in Scenarios : \E mods \in {EmptySlots, ArrayOf(w), GappedArrayOf(w)} :
        Setup(w, mods)

Next ==
    \/ \E m \in Held : InsertModule(m)
    \/ \E m \in Held : \E index \in Slots : ReplaceModule(m, index)
    \/ TakeModules
    \/ \E index \in 0 .. MODULES : Lookup(index)
    \/ ClearCache
    \/ ProcessModules

Spec == Init /\ [][Next]_vars


\* The operations that change the processor, on the wirings that carry
\* signals.
InitTrip ==
    \E w \in Scenarios \ {DummyWiring} :
        \E mods \in {EmptySlots, ArrayOf(w), GappedArrayOf(w)} : Setup(w, mods)

NextTrip ==
    \/ \E m \in Held : InsertModule(m)
    \/ \E m \in Held : \E index \in Slots : ReplaceModule(m, index)
    \/ TakeModules
    \/ ClearCache
    \/ ProcessModules

SpecTrip == InitTrip /\ [][NextTrip]_vars


\* The chain built with Processor::new, ticks, and replace_module calls with
\* the module left outside.
InitReplace == Setup(ReplaceWiring, ArrayOf(ChainWiring))

NextReplace ==
    \/ \E m \in Held : \E index \in Slots : ReplaceModule(m, index)
    \/ ProcessModules

SpecReplace == InitReplace /\ [][NextReplace]_vars


\* ------------------------------------------------------------- oscillator
\* modules::Oscillator.  Phase, frequency, amplitude and samples are in units
\* of 1 / Scale like every sample.
SAMPLE_RATE == 4

Oscillator(tag, wave_shape, duty_cycle, frequency, amplitude, out) ==
    [tag |-> tag, kind |-> "Oscillator", value |-> 0, x |-> NoneSig, y |-> NoneSig,
     out |-> out, wave_shape |-> wave_shape, duty_cycle |-> duty_cycle,
     frequency |-> frequency, amplitude |-> amplitude]

\* fn sine: the Bhaskara approximation.  With x = t * PI for t = |input|, PI
\* cancels from numerator / denominator, which is 16 t (1 - t) / (5 - 4 t (1 - t)),
\* here with both divided by 4 to stay within 32 bits; the quotient is cut to
\* a multiple of 1 / Scale.
sine(input) ==
    LET t == IF input < 0 THEN -input ELSE input
        u == t * (Scale - t)
        q == (4 * u * Scale) \div ((5 * Scale * Scale) \div 4 - u)
    IN  IF input < 0 THEN -q ELSE q

\* fn triangle
triangle(input) ==
    IF input < 0 THEN (input + Scale) * 2 - Scale ELSE -(input * 2) + Scale

\* fn pulse
pulse(input, duty_cycle) ==
    LET threshold == duty_cycle * 2 - Scale
    IN  IF input >= threshold THEN Scale ELSE -Scale

\* The phase after self.value += (1.0 / SAMPLE_RATE) * frequency and the wrap.
NextPhase(m) ==
    LET v == m.value + ((Scale \div SAMPLE_RATE) * m.frequency) \div Scale
    IN  IF v >= Scale THEN v - 2 * Scale ELSE v

\* The sample process writes, from the new phase v.
WaveOutput(m, v) ==
    LET wave == CASE m.wave_shape = "Saw" -> v
                  [] m.wave_shape = "Sine" -> sine(v)
                  [] m.wave_shape = "Triangle" -> triangle(v)
                  [] OTHER -> pulse(v, m.duty_cycle)
        mag == IF wave < 0 THEN -wave ELSE wave
        out == (mag * m.amplitude) \div Scale
    IN  IF wave < 0 THEN -out ELSE out

\* <Oscillator as Module<SAMPLE_RATE>>::process, called on the oscillator the
\* caller holds; last'.samples are the samples written so far.
OscillatorProcess ==
    LET m == wiring[1]
        v == NextPhase(m)
        output == WaveOutput(m, v)
    IN  /\ ticks < MaxSamples
        /\ ticks' = ticks + 1
        /\ wiring' = [wiring EXCEPT ![1].value = v]
        /\ buffer' = [buffer EXCEPT ![m.out] = output]
        /\ marks' = [marks EXCEPT ![m.out] = TRUE]
        /\ last' = [Before("oscillator") EXCEPT !.res = output,
                        !.samples = Append(last.samples, output)]
        /\ UNCHANGED <<modules, module_ids, order_set, handles>>

\* Oscillators of every wave shape, at a few frequencies and amplitudes, on
\* point 0, from phase 0 as Oscillator::new leaves it.
Oscillators ==
    {Oscillator(1, w, Scale \div 2, f, a, 0) :
        w \in {"Saw", "Sine", "Triangle", "Pulse"},
        f \in {Scale \div 2, Scale, 2 * Scale},
        a \in {Scale, (8 * Scale) \div 10}}

InitOscillator == \E m \in Oscillators : Setup(<<m>>, EmptySlots)

NextOscillator == OscillatorProcess

SpecOscillator == InitOscillator /\ [][NextOscillator]_vars


\* The patchbay's operations called between ticks, around the processor of a
\* test wiring.
SampleValues == {Scale \div 2}

NextBay ==
    \/ Point
    \/ \E i \in Points : \E sample \in SampleValues : SetSample(i, sample)
    \/ ClearMarks
    \/ ProcessModules
    \/ ClearCache

InitBay == \E w \in Scenarios : Setup(w, ArrayOf(w))

SpecBay == InitBay /\ [][NextBay]_vars

\* A patchbay right after Patchbay::new, before any module is built on it, and
\* the caller's calls on it: point, set, the drop of a PatchPoint, clear_marks.
InitPoints == Setup(DummyWiring, EmptySlots)

NextPoints ==
    \/ Point
    \/ \E i \in Points : \E sample \in SampleValues : SetSample(i, sample)
    \/ \E i \in Points : DropPoint(i)
    \/ ClearMarks

SpecPoints == InitPoints /\ [][NextPoints]_vars

\* Every wiring of MODULES modules, module t owning point t - 1: a Constant, a
\* Divide reading any point, an Add reading any two different points, a Dummy (it writes
\* nothing) or a Stubborn (never ready).  The ids are 0 .. MODULES - 1 in the
\* order of the tags, so the wirings cover every assignment of ids to the
\* modules of a graph.
ModuleChoices(t) ==
    {Constant(t, (8 * Scale) \div 10, t - 1), Dummy(t), Stubborn(t, (8 * Scale) \div 10, t - 1)}
    \cup {Divide(t, 2, PatchPointSig(p), t - 1) : p \in Points}
    \cup {Add(t, PatchPointSig(pq[1]), PatchPointSig(pq[2]), t - 1) :
             pq \in {r \in Points \X Points : r[1] < r[2]}}

RECURSIVE WiringsUpTo(_)
WiringsUpTo(k) ==
    IF k = 0 THEN {<<>>}
    ELSE {Append(w, m) : w \in WiringsUpTo(k - 1), m \in ModuleChoices(k)}

AllWirings == WiringsUpTo(IF MODULES < PATCHPOINTS THEN MODULES ELSE PATCHPOINTS)

\* ... and the chain of tests::process_should_run_modules_in_the_correct_order.
InitWiring == \E w \in AllWirings \cup {ChainWiring} : Setup(w, ArrayOf(w))

NextWiring ==
    \/ ProcessModules
    \/ ClearCache

SpecWiring == InitWiring /\ [][NextWiring]_vars

\* The chain or a row of Dummies, under every operation that changes the
\* processor.
InitIds ==
    \E w \in {ChainWiring, DummyWiring} :
        \E mods \in {EmptySlots, ArrayOf(w), GappedArrayOf(w)} : Setup(w, mods)

SpecIds == InitIds /\ [][NextTrip]_vars


\* ============================================================== properties
Count(seq, x) == Cardinality({k \in 1 .. Len(seq) : seq[k] = x})
\* The position of the first process call of the module tagged x, 0 if none.
Pos(seq, x) ==
    IF \E k \in 1 .. Len(seq) : seq[k] = x
    THEN CHOOSE k \in 1 .. Len(seq) : seq[k] = x /\ \A j \in 1 .. (k - 1) : seq[j] # x
    ELSE 0
Occupied(mods) == {i \in Slots : mods[i] # NoModule}
TagsIn(mods) == {mods[i].tag : i \in Occupied(mods)}
Processed == last.op = "process"

\* C1: when process_modules has returned, every module that occupies a slot
\* (and every module that occupied one when the call started) had process
\* called exactly once during the call, and no other call was made.
C1_EveryModuleOnce ==
    Processed =>
        /\ \A t \in TagsIn(modules) \cup TagsIn(last.mods0) : Count(last.order, t) = 1
        /\ Len(last.order) = Cardinality(Occupied(modules))

\* C1 witness: a call on the cached path that ran three modules.
C1_Witness ==
    /\ Processed
    /\ last.path = "cached"
    /\ Len(last.order) = 3

\* C3: process_modules keeps every id that was bound before the call bound to
\* the same module.
C3_IdsSurvive ==
    Processed =>
        \A id \in Slots :
            last.ids0[id] # NONE =>
                /\ GetModule(modules, module_ids, id) # NoModule
                /\ GetModule(modules, module_ids, id) = GetModule(last.mods0, last.ids0, id)

\* C3 witness: a discovery tick whose compaction moved a module to another slot.
C3_Witness ==
    /\ Processed
    /\ last.path = "discovery"
    /\ \E id \in Slots : last.ids0[id] # NONE /\ module_ids[id] # last.ids0[id]


\* --------------------------------------------------- the graph of a wiring
Tags == DOMAIN wiring
\* The modules that write point p.
Producers(p) == {u \in Tags : Writes(wiring[u]) /\ wiring[u].out = p}
\* u's output is an input of t.
Feeds(u, t) == Writes(wiring[u]) /\ wiring[u].out \in InputPoints(wiring[t])
RECURSIVE Upstream(_, _)
\* The modules from which a module of S is reached along Feeds, in at most n more steps.
Upstream(S, n) ==
    LET T == S \cup {u \in Tags : \E t \in S : Feeds(u, t)}
    IN  IF n = 0 \/ T = S THEN S ELSE Upstream(T, n - 1)
Ancestors(t) == Upstream({u \in Tags : Feeds(u, t)}, MODULES)
OnCycle(t) == t \in Ancestors(t)
Acyclic == \A t \in Tags : ~OnCycle(t)
\* Every is_ready checks exactly the inputs of its process.
ExactReady == \A t \in Tags : wiring[t].kind # "Stubborn"
\* Every input point is written by a module in every tick.
WellFed == \A t \in Tags : \A p \in InputPoints(wiring[t]) : Producers(p) # {}
\* On a cycle or downstream of one.
FedByCycle(t) == OnCycle(t) \/ \E u \in Ancestors(t) : OnCycle(u)
RECURSIVE CyclesThrough(_, _, _)
\* The module sets of the simple cycles that start at s, run along Feeds
\* through the modules of seen (all tagged above s) to cur, and go on from cur.
CyclesThrough(s, cur, seen) ==
    (IF Feeds(cur, s) THEN {seen} ELSE {})
    \cup UNION {CyclesThrough(s, n, seen \cup {n}) :
                  n \in {k \in Tags \ seen : k > s /\ Feeds(cur, k)}}
\* The sets of modules that form one simple cycle of the wiring.
Cycles == UNION {CyclesThrough(s, s, {s}) : s \in Tags}
\* The external id bound to the module tagged t.
IdOf(t) == CHOOSE id \in Slots : GetModule(modules, module_ids, id).tag = t
AllInProcessor == Tags \subseteq TagsIn(modules)

C7_FeedbackReadsPreviousTick ==
    /\ (Processed /\ wiring = CircularWiring /\ ticks = 1) => buffer[0] = (8 * Scale) \div 10
    /\ (Processed /\ wiring = CircularWiring /\ ticks = 2) => buffer[0] = (12 * Scale) \div 10
    /\ Processed =>
           \A r \in last.reads : \A u \in Producers(r[2]) :
               (Pos(last.order, u) >= Pos(last.order, r[1])) => r[3] = last.buf0[r[2]]

\* C7 witness: the second tick of the circular wiring, add having read
\* divide's output of the first tick, 0.4.
C7_Witness ==
    /\ Processed /\ wiring = CircularWiring /\ ticks = 2
    /\ buffer[0] = (12 * Scale) \div 10
    /\ <<1, 2, (4 * Scale) \div 10>> \in last.reads

\* C8 as stated: exactly one module of each feedback cycle reads a point that
\* was not yet written in the tick.  Stated for the wirings that have a single
\* cycle, exact is_ready checks and a producer for every input.
C8_AsStated ==
    (Processed /\ AllInProcessor /\ ExactReady /\ WellFed /\ Cardinality(Cycles) = 1) =>
        \A S \in Cycles : Cardinality(S \cap last.stale) = 1

\* C8, amended: at least one module of each feedback cycle reads a point that
\* was not yet written in the tick; when the is_ready checks are exact and
\* every input point has a producer, a module of a cycle does so exactly when
\* the producer of one of its inputs is on or downstream of a cycle and has an
\* external id that is not lower than its own.
C8_StaleInCycle ==
    /\ (Processed /\ AllInProcessor) => \A S \in Cycles : S \cap last.stale # {}
    /\ (Processed /\ AllInProcessor /\ ExactReady /\ WellFed) =>
           \A t \in {u \in Tags : OnCycle(u)} :
               (t \in last.stale) <=>
                   \E p \in InputPoints(wiring[t]) : \E u \in Producers(p) :
                       FedByCycle(u) /\ IdOf(u) >= IdOf(t)

\* C8 witness: a tick in which two modules of one cycle read a stale point.
C8_Witness ==
    /\ Processed /\ AllInProcessor /\ ExactReady /\ WellFed
    /\ \E S \in Cycles : Cardinality(S \cap last.stale) = 2

\* C9: order discovery ends: the greedy loop exits by itself, after at most
\* (number of modules + 1) scans.
C9_GreedyLoopEnds ==
    (Processed /\ last.path = "discovery") =>
        /\ ~last.diverged
        /\ last.scans <= Cardinality(Occupied(modules)) + 1

\* C9 witness: a re-derivation that needed MODULES + 1 scans.
C9_Witness ==
    /\ Processed /\ last.path = "discovery" /\ ticks > 1
    /\ last.scans = MODULES + 1


\* C4 as stated: point() never returns an index for which it has already
\* returned a PatchPoint (a PatchPoint is never given back: it has no Drop).
C4_AsStated == \A i \in Points : handles[i] <= 1

\* C5 as stated: a successful insert_module, replace_module, take_modules and
\* clear_cache each leave order_set false.
C5_AsStated ==
    (\/ last.op \in {"replace", "take", "clear_cache"}
     \/ (last.op = "insert" /\ last.res # NONE)) => ~order_set

\* C6 as stated: after every process_modules call the mark of a point is true
\* exactly when the point was written during the call.
C6_AsStated == Processed => \A i \in Points : marks[i] <=> (i \in last.written)

\* C10: a successful insert_module returns the lowest id that was unbound,
\* stores the module in the lowest slot that was empty and binds the id to that
\* slot, changing nothing else; the modules inserted into an empty processor
\* sit in slots 0, 1, ... in insertion order, under the ids 0, 1, ...
C10_InsertLowest ==
    /\ (last.op = "insert" /\ last.res # NONE) =>
           LET i == last.res
               s == module_ids[i]
           IN  /\ last.ids0[i] = NONE /\ \A j \in Slots : j < i => last.ids0[j] # NONE
               /\ s # NONE /\ last.mods0[s] = NoModule
               /\ \A j \in Slots : j < s => last.mods0[j] # NoModule
               /\ modules[s].tag = last.tag
               /\ \A j \in Slots \ {s} : modules[j] = last.mods0[j]
               /\ \A j \in Slots \ {i} : module_ids[j] = last.ids0[j]
    /\ \A k \in 1 .. Len(last.run) :
           /\ modules[k - 1].tag = last.run[k]
           /\ module_ids[k - 1] = k - 1
    /\ last.run # <<>> => Cardinality(Occupied(modules)) = Len(last.run)

\* C10 witness: three modules inserted into a processor that take_modules had
\* emptied after a discovery tick.
C10_Witness ==
    /\ last.op = "insert" /\ Len(last.run) = 3
    /\ ticks > 0

\* C11: insert_module returns none exactly when every external id is bound or
\* every slot is occupied, and a call that returns none leaves the slots, the
\* id bindings and the order-cache flag as they were.
C11_InsertNone ==
    last.op = "insert" =>
        /\ (last.res = NONE) <=>
               \/ \A id \in Slots : last.ids0[id] # NONE
               \/ \A s \in Slots : last.mods0[s] # NoModule
        /\ last.res = NONE =>
               /\ modules = last.mods0
               /\ module_ids = last.ids0
               /\ order_set = last.set0

\* C11 witness: an insert_module that returned none on a full processor whose
\* order was cached.
C11_Witness ==
    /\ last.op = "insert"
    /\ last.res = NONE
    /\ last.set0
    /\ order_set
    /\ Occupied(modules) = Slots

\* The module of the wiring tagged t.
ModuleOf(t) == CHOOSE m \in {wiring[k] : k \in DOMAIN wiring} : m.tag = t
\* The lowest-index empty slot of mods, NONE when every slot is occupied.
LowestEmpty(mods) ==
    IF Occupied(mods) = Slots THEN NONE
    ELSE CHOOSE s \in Slots \ Occupied(mods) :
             \A r \in Slots \ Occupied(mods) : s <= r

\* C12: after replace_module(m, id) with id < N, get_module(id) returns m; if
\* id was bound, m overwrote the module of the slot id maps to and nothing
\* else changed; if id was unbound, m sits in the lowest-index slot that was
\* empty and id is bound to that slot.
C12_ReplaceThenGet ==
    last.op = "replace" =>
        LET id == last.id
            m  == ModuleOf(last.tag)
            s0 == last.ids0[id]
            s  == LowestEmpty(last.mods0)
        IN  /\ GetModule(modules, module_ids, id) = m
            /\ s0 # NONE =>
                   /\ modules = [last.mods0 EXCEPT ![s0] = m]
                   /\ module_ids = last.ids0
            /\ s0 = NONE =>
                   /\ s # NONE
                   /\ modules = [last.mods0 EXCEPT ![s] = m]
                   /\ module_ids = [last.ids0 EXCEPT ![id] = s]

\* C12 witness: replace_module at id 2 on an empty processor stored the module
\* in slot 0.
C12_Witness ==
    /\ last.op = "replace"
    /\ last.id = 2
    /\ last.mods0 = EmptySlots
    /\ last.ids0 = UnboundIds
    /\ modules[0].tag = last.tag
    /\ module_ids[2] = 0

\* C13: get_module(id) and get_module_mut(id) return none for every id < N
\* that is not bound (never handed out by new, insert_module or
\* replace_module, or released by take_modules) and return the module the id
\* was handed out for otherwise.
C13_LookupBound ==
    (last.op = "get_module" /\ last.id < MODULES) =>
        /\ ~last.panicked
        /\ last.tag = last.binding[last.id]

\* C13 witness: a lookup that returned the module of an id whose slot has
\* another number, while an unbound id has the number of an occupied slot.
C13_Witness ==
    /\ last.op = "get_module"
    /\ last.id < MODULES
    /\ last.tag # 0
    /\ module_ids[last.id] # last.id
    /\ \E id \in Slots : last.binding[id] = 0 /\ modules[id] # NoModule

\* C14 as stated: a lookup returns without failing for every id value, ids of
\* N and more included.
C14_AsStated ==
    last.op = "get_module" => ~last.panicked

\* C15: take_modules returns the modules as they sat in the slots (slot i of
\* the result is the module of slot i) and leaves every slot empty and every
\* id unbound, so that get_module returns none for every id < N and a
\* take_modules that follows returns all-none.
C15_TakeAll ==
    last.op = "take" =>
        /\ \A i \in Slots : last.taken[i] = last.mods0[i]
        /\ modules = EmptySlots
        /\ \A id \in Slots :
               /\ module_ids[id] = NONE
               /\ GetModule(modules, module_ids, id) = NoModule
        /\ last.mods0 = EmptySlots => last.taken = EmptySlots

\* C15 witness: take_modules on a processor that had an empty slot and held
\* two modules or more under ids that differ from the slot numbers.
C15_Witness ==
    /\ last.op = "take"
    /\ Occupied(last.taken) # Slots
    /\ Cardinality(Occupied(last.taken)) >= 2
    /\ \E id \in Slots : last.ids0[id] # NONE /\ last.ids0[id] # id
    /\ modules = EmptySlots

\* The bound ids are in the order of the slots they map to.
Aligned ==
    \A a, b \in Slots :
        (module_ids[a] # NONE /\ module_ids[b] # NONE /\ a < b)
            => module_ids[a] < module_ids[b]

\* C16 as stated: from any state of any wiring, the processor that went through
\* take_modules and re-insertion in the order of the returned array leaves the
\* same patchbay values after every following tick as the processor that did
\* not.
C16_AsStated ==
    BuffersAfter(RoundTrip(Here), MaxTicks) = BuffersAfter(Here, MaxTicks)

\* C16, amended: the two processors leave the same patchbay values after every
\* following tick when, at the time of take_modules, the order is cached, or
\* the bound ids are in the order of their slots, or the wiring is acyclic
\* with exact is_ready checks and every input written by a module of the
\* processor.  TickOf, TakeOf and InsertOf are what process_modules,
\* take_modules and insert_module do in every step.
C16_RoundTrip ==
    /\ []((order_set \/ Aligned
               \/ (AllInProcessor /\ Acyclic /\ ExactReady /\ WellFed))
           => C16_AsStated)
    /\ [][ProcessModules => Here' = TickOf(Here)]_vars
    /\ [][TakeModules => Here' = TakeOf(Here)]_vars
    /\ [][\A m \in Held : InsertModule(m) => Here' = InsertOf(Here, m)]_vars

\* C16 witness: the circular wiring with its order cached, where re-insertion
\* binds the modules to other ids than they have and the feedback values
\* change from tick to tick.
C16_Witness ==
    /\ wiring = CircularWiring
    /\ AllInProcessor
    /\ order_set
    /\ RoundTrip(Here).module_ids # module_ids
    /\ LET b == BuffersAfter(RoundTrip(Here), MaxTicks)
       IN  b[1][0] # b[MaxTicks][0]

\* C18 as stated: in a wiring that does not change, a process_modules call on
\* the cached path leaves in every patch point the value the tick before it
\* left there, back to the discovery tick that established the order.
C18_AsStated ==
    (Processed /\ AllInProcessor /\ last.path = "cached") => buffer = last.buf0

\* C18, amended: so it is in an acyclic wiring whose is_ready checks are exact
\* and in which every input point is written by a module of the processor; the
\* chain div2 <- div1 <- Constant 0.8 holds 0.1 in div2's output after the
\* discovery tick and after every cached tick.
C18_ReplayReproduces ==
    /\ (Processed /\ AllInProcessor /\ last.path = "cached"
            /\ Acyclic /\ ExactReady /\ WellFed) => buffer = last.buf0
    /\ (Processed /\ wiring = ChainWiring) => buffer[2] = Scale \div 10

\* C18 witness: the second tick of the chain, on the cached path, with 0.1 in
\* div2's output before and after.
C18_Witness ==
    /\ Processed /\ wiring = ChainWiring
    /\ last.path = "cached"
    /\ ticks = 2
    /\ last.buf0[2] = Scale \div 10
    /\ buffer[2] = Scale \div 10

\* C19 as stated: after point() and the drop of the PatchPoint it returned,
\* as many points can be allocated as before the pair.
C19_AsStated ==
    (last.op = "drop" /\ last.paired) => Free(marks) = last.free0

\* C20: on a patchbay on which only point, set and get were called since
\* Patchbay::new, the first PATCHPOINTS calls of point() returned pairwise
\* different indices and every later call returned none; and a set after the
\* failed call writes its point, readable through get, and no other.
C20_FreshPoints ==
    last.fresh =>
        /\ \A k \in 1 .. Len(last.points) :
               IF k <= PATCHPOINTS
               THEN /\ last.points[k] \in Points
                    /\ \A j \in 1 .. (k - 1) : last.points[j] # last.points[k]
               ELSE last.points[k] = NONE
        /\ (last.op = "set" /\ Len(last.points) > PATCHPOINTS) =>
               /\ Get(buffer, PatchPointSig(last.id)) = last.res
               /\ \A j \in Points \ {last.id} : buffer[j] = last.buf0[j]

\* C20 witness: every point allocated, one more point() that returned none,
\* then a set of one point while another one keeps a value written before.
C20_Witness ==
    /\ last.fresh
    /\ Len(last.points) > PATCHPOINTS
    /\ last.points[PATCHPOINTS + 1] = NONE
    /\ last.op = "set"
    /\ last.buf0[last.id] # last.res
    /\ \E j \in Points \ {last.id} : buffer[j] # 0
    /\ \E j \in Points \ {last.id} : buffer[j] = 0

\* The modules whose is_ready always returns false.
NeverReady == {t \in Tags : wiring[t].kind = "Stubborn"}

\* C21: a module whose is_ready always returns false has process called
\* exactly once in every process_modules call: by the residual pass on a
\* discovery tick, by the iteration over the slots on a cached tick.
C21_NeverReadyOnce ==
    (Processed /\ AllInProcessor) =>
        \A t \in NeverReady :
            /\ Count(last.order, t) = 1
            /\ last.path = "discovery" => t \in last.residual
            /\ last.path = "cached" =>
                   modules[Pos(last.order, t) - 1] = wiring[t]

\* C21 witness: a cached tick, after a discovery tick, of a wiring in which a
\* never-ready module feeds a module with a lower id.
C21_Witness ==
    /\ Processed /\ AllInProcessor
    /\ last.path = "cached"
    /\ \E t \in NeverReady : \E u \in Tags : u < t /\ Feeds(t, u)

\* The slot the module tagged t occupies.
SlotOf(t) == CHOOSE s \in Slots : modules[s].tag = t

C23_BufferPersists ==
    /\ last.op = "clear_marks" => buffer = last.buf0
    /\ \A i \in Points :
           buffer[i] # last.buf0[i] =>
               \/ last.op = "set" /\ last.id = i
               \/ last.op = "process" /\ i \in last.written

\* C23 witness: a discovery tick, which cleared the marks, after which a point
\* no module wrote still holds the value the caller had set.
C23_Witness ==
    /\ Processed
    /\ last.path = "discovery"
    /\ \E i \in Points \ last.written :
           /\ last.marks0[i]
           /\ ~marks[i]
           /\ buffer[i] = Scale \div 2

\* C24: right after set(point, v), get(point.signal()) is v and
\* check(point.signal()) is true, and no other index's value or mark changed.
C24_SetStoresAndMarks ==
    last.op = "set" =>
        /\ Get(buffer, PatchPointSig(last.id)) = last.res
        /\ Check(marks, PatchPointSig(last.id))
        /\ \A j \in Points \ {last.id} :
               /\ buffer[j] = last.buf0[j]
               /\ marks[j] = last.marks0[j]

\* C24 witness: a set on an unmarked point holding another value, next to a
\* marked point with a value and an unmarked one.
C24_Witness ==
    /\ last.op = "set"
    /\ ~last.marks0[last.id]
    /\ last.buf0[last.id] # last.res
    /\ \E j \in Points \ {last.id} : marks[j] /\ buffer[j] # 0
    /\ \E j \in Points \ {last.id} : ~marks[j]

\* C25 as stated: the point a successful point() returned reads 0.0 through
\* get(point.signal()), whatever state the patchbay was in.
C25_AsStated ==
    (last.op = "point" /\ last.res # NONE) =>
        Get(buffer, PatchPointSig(last.res)) = 0

\* C26 as stated: a freshness mark goes from false to true only by a set on
\* its point; point and clear_marks never raise one.
C26_AsStated ==
    \A i \in Points :
        (marks[i] /\ ~last.marks0[i]) => (last.op = "set" /\ last.id = i)

\* C27: replace_module leaves the order cache invalid, and a tick of the
\* processor that holds div2, div1 and the Constant 0.4 runs the Constant
\* before div1 and div1 before div2, in a greedy loop that ends, and leaves
\* 0.05 in div2's output; so it is on the tick after the chain ran once with
\* the Constant 0.8 and that Constant was replaced.
C27_ReplacedProducer ==
    /\ last.op = "replace" => ~order_set
    /\ (Processed /\ wiring = ReplaceWiring /\ TagsIn(modules) = {1, 2, 4}) =>
           /\ buffer[2] = Scale \div 20
           /\ ~last.diverged
           /\ Pos(last.order, 4) < Pos(last.order, 2)
           /\ Pos(last.order, 2) < Pos(last.order, 1)
    /\ (Processed /\ last.replaced) => last.path = "discovery"

\* C27 witness: the second tick, right after the replace_module that put the
\* Constant 0.4 under the id of the Constant 0.8, the first tick having cached
\* the order and left 0.1 in div2's output.
C27_Witness ==
    /\ Processed /\ wiring = ReplaceWiring
    /\ last.replaced
    /\ ticks = 2
    /\ last.binding = (0 :> 1) @@ (1 :> 2) @@ (2 :> 4) @@ [id \in Slots |-> 0]
    /\ last.buf0[2] = Scale \div 10
    /\ last.buf0[0] = (8 * Scale) \div 10
    /\ buffer[0] = (4 * Scale) \div 10
    /\ buffer[2] = Scale \div 20

\* C28: a process_modules call made while order_set is true calls process in
\* increasing slot order and changes neither the modules' slots, nor an
\* id-to-slot binding, nor order_set.
C28_CachedCallStable ==
    (Processed /\ last.set0) =>
        /\ last.path = "cached"
        /\ \A k \in 1 .. Len(last.order) : last.order[k] = last.mods0[k - 1].tag
        /\ modules = last.mods0
        /\ module_ids = last.ids0
        /\ order_set

\* C28 witness: a cached call that ran three modules of a processor whose ids
\* are not bound in slot order.
C28_Witness ==
    /\ Processed /\ last.set0
    /\ Len(last.order) = 3
    /\ \E id \in Slots : module_ids[id] # NONE /\ module_ids[id] # id

\* The saw oscillator of frequency 1.0 and full amplitude.
UnitSaw ==
    /\ wiring[1].wave_shape = "Saw"
    /\ wiring[1].frequency = Scale
    /\ wiring[1].amplitude = Scale

\* C29 as stated: the k-th process call of the saw oscillator with frequency
\* 1.0, SAMPLE_RATE 4 and full amplitude writes the k-th sample of
\* 0.0, 0.25, 0.5, -0.25, 0.0, 0.25, 0.5, -0.25, ...
C29_AsStated ==
    (last.op = "oscillator" /\ UnitSaw) =>
        \A k \in 1 .. Len(last.samples) :
            last.samples[k] =
                <<0, Scale \div 4, Scale \div 2, -(Scale \div 4)>>[((k - 1) % 4) + 1]

\* C30: right after Processor::new(modules), get_module(i) is modules[i] for
\* every i, id i is bound, to slot i, exactly when slot i is occupied, and the
\* order cache is invalid; right after Processor::empty() every slot is empty,
\* every id unbound and the cache invalid.
C30_NewBindsSlots ==
    last.op = "init" =>
        /\ ~order_set
        /\ \A i \in Slots :
               /\ GetModule(modules, module_ids, i) = modules[i]
               /\ modules[i] # NoModule => module_ids[i] = i
               /\ modules[i] = NoModule => module_ids[i] = NONE
        /\ modules = EmptySlots => module_ids = UnboundIds

\* C30 witness: a processor made by Processor::new from an array whose first
\* slot is empty and whose second is not.
C30_Witness ==
    /\ last.op = "init"
    /\ modules[0] = NoModule
    /\ modules[1] # NoModule
    /\ module_ids[0] = NONE
    /\ module_ids[1] = 1


\* The id bound to the module tagged t in the processor (mods, ids).
IdIn(mods, ids, t) == CHOOSE id \in Slots : GetModule(mods, ids, id).tag = t
\* The slot the module tagged t occupies in mods.
SlotIn(mods, t) == CHOOSE i \in Slots : mods[i].tag = t
\* The last process_modules call, replayed up to the end of its n-th scan.
ScanState(n) ==
    AfterScans(StartRun(last.buf0, ClearedMarks), last.mods0, last.ids0, n)[n + 1]
\* The is_ready calls of the n-th scan and the process calls of the n-th scan.
ScanAsked(n) ==
    SubSeq(ScanState(n).asked, Len(ScanState(n - 1).asked) + 1, Len(ScanState(n).asked))
ScanOrder(n) ==
    SubSeq(ScanState(n).order, Len(ScanState(n - 1).order) + 1, Len(ScanState(n).order))
\* The tags of seq belong to strictly increasing ids of the call's id table.
IdsIncrease(seq) ==
    \A i, j \in 1 .. Len(seq) :
        i < j => IdIn(last.mods0, last.ids0, seq[i]) < IdIn(last.mods0, last.ids0, seq[j])
\* The processor of the last call with every module moved to the slot
\* numbered like its id.
ById == [id \in Slots |-> GetModule(last.mods0, last.ids0, id)]

\* C31: in each scan of the greedy pass is_ready is asked in increasing id
\* order, the modules that answer true in a scan are processed in that id
\* order, and the order of the process calls is the one the same modules give
\* when each sits in the slot numbered like its id: the slots play no part.
C31_GreedyByIds ==
    (last.op = "process" /\ last.path = "discovery") =>
        LET sts == AfterScans(StartRun(last.buf0, ClearedMarks),
                              last.mods0, last.ids0, last.scans)
            asked == [n \in 1 .. last.scans |->
                         SubSeq(sts[n + 1].asked, Len(sts[n].asked) + 1, Len(sts[n + 1].asked))]
            order == [n \in 1 .. last.scans |->
                         SubSeq(sts[n + 1].order, Len(sts[n].order) + 1, Len(sts[n + 1].order))]
            greedy == sts[last.scans + 1].order
        IN  /\ \A n \in 1 .. last.scans :
                  LET ready == SelectSeq(asked[n], LAMBDA a : a[2])
                  IN  /\ IdsIncrease([k \in 1 .. Len(asked[n]) |-> asked[n][k][1]])
                      /\ IdsIncrease(order[n])
                      /\ order[n] = [k \in 1 .. Len(ready) |-> ready[k][1]]
            /\ SubSeq(last.order, 1, Len(greedy)) = greedy
            /\ last.order = DiscoveryRun(last.buf0, last.marks0, ById, NewIds(ById)).order

\* A discovery tick with a scan that processed two modules against the
\* order of the slots they sat in.
C31_Witness ==
    /\ last.op = "process" /\ last.path = "discovery"
    /\ \E n \in 1 .. last.scans :
          \E i, j \in 1 .. Len(ScanOrder(n)) :
              /\ i < j
              /\ SlotIn(last.mods0, ScanOrder(n)[i]) > SlotIn(last.mods0, ScanOrder(n)[j])


\* The last process_modules call replayed to the end of its greedy pass and
\* to the end of its residual pass.
GreedyEnd == GreedyLoop(StartRun(last.buf0, ClearedMarks), last.mods0, last.ids0)
ResidualEnd == ResidualPass(GreedyEnd, last.mods0, last.ids0, 0)
\* The process calls of the residual pass.
ResidualOrder == SubSeq(ResidualEnd.order, Len(GreedyEnd.order) + 1, Len(ResidualEnd.order))

\* C32: after the discovery tick the module processed k-th sits in slot k and
\* the slots behind the last one are empty; the calls of the greedy pass come
\* first, the other modules follow in increasing id order, each processed
\* once with no further is_ready call.
C32_SlotsInCallOrder ==
    (last.op = "process" /\ last.path = "discovery") =>
        LET g == GreedyEnd
            r == ResidualPass(g, last.mods0, last.ids0, 0)
            rest == SubSeq(r.order, Len(g.order) + 1, Len(r.order))
        IN  /\ last.order = r.order
            /\ \A k \in Slots :
                  modules[k].tag =
                      IF k < Len(last.order) THEN last.order[k + 1] ELSE NoModule.tag
            /\ SubSeq(last.order, 1, Len(g.order)) = g.order
            /\ IdsIncrease(rest)
            /\ {rest[k] : k \in 1 .. Len(rest)} = last.residual
            /\ Len(rest) = Cardinality(last.residual)
            /\ r.asked = g.asked

\* A discovery tick that moved a module: the greedy pass processed a module,
\* the residual pass two, one of them not ready at that moment.
C32_Witness ==
    /\ last.op = "process" /\ last.path = "discovery"
    /\ Len(GreedyEnd.order) >= 1
    /\ Len(ResidualOrder) >= 2
    /\ \E k \in 1 .. Len(last.order) : last.mods0[k - 1].tag # last.order[k]
    /\ \E t \in last.residual :
          ~IsReady(GetModule(last.mods0, last.ids0, IdIn(last.mods0, last.ids0, t)),
                   ResidualEnd.pb)


\* C33 as stated: with every input produced in the processor and exact
\* is_ready checks, every module the residual pass ran is on a feedback cycle.
C33_AsStated ==
    (last.op = "process" /\ last.path = "discovery"
        /\ AllInProcessor /\ ExactReady /\ WellFed) =>
        \A t \in last.residual : OnCycle(t)

\* C33: with every input produced in the processor and exact is_ready checks,
\* the modules left to the residual pass are those on a feedback cycle and
\* those downstream of one, and no others.
C33_ResidualFedByCycle ==
    (last.op = "process" /\ last.path = "discovery"
        /\ AllInProcessor /\ ExactReady /\ WellFed) =>
        last.residual = {t \in Tags : FedByCycle(t)}

\* A discovery tick whose residual pass ran a module of a cycle and a module
\* that only reads from the cycle.
C33_Witness ==
    /\ last.op = "process" /\ last.path = "discovery"
    /\ AllInProcessor /\ ExactReady /\ WellFed
    /\ \E t \in last.residual : OnCycle(t)
    /\ \E t \in last.residual : ~OnCycle(t)
    /\ \E t \in Tags : t \notin last.residual


\* The last process_modules call replayed on the cached path.
CachedEnd == CachedRun(StartRun(last.buf0, last.marks0), last.mods0, 0)

\* C34: a process_modules call made with order_set true calls no is_ready;
\* it calls process once for every occupied slot, in slot order.
C34_CachedAsksNothing ==
    (last.op = "process" /\ last.path = "cached") =>
        LET c == CachedEnd IN
        /\ c.asked = <<>>
        /\ last.order = c.order
        /\ Len(last.order) = Cardinality(Occupied(last.mods0))
        /\ \A k \in 1 .. Len(last.order) : last.mods0[k - 1].tag = last.order[k]

\* A cached tick over two or more modules, one of which is not ready.
C34_Witness ==
    /\ last.op = "process" /\ last.path = "cached"
    /\ Len(last.order) >= 2
    /\ \E i \in Occupied(last.mods0) :
          ~IsReady(last.mods0[i], [buffer |-> last.buf0, marks |-> last.marks0])


\* The ids bound in an id table.
Bound(ids) == {id \in Slots : ids[id] # NONE}

\* C35: the id table is a bijection between the bound ids and the occupied
\* slots: a bound id maps to an occupied slot, two ids never map to the same
\* slot, and every occupied slot is the target of exactly one id.
C35_IdsBijection ==
    /\ \A id \in Bound(module_ids) : module_ids[id] \in Occupied(modules)
    /\ \A a, b \in Bound(module_ids) : a # b => module_ids[a] # module_ids[b]
    /\ \A s \in Occupied(modules) :
          Cardinality({id \in Bound(module_ids) : module_ids[id] = s}) = 1

\* replace_module has bound an unbound id on a processor in which a discovery
\* tick had moved a module away from the slot numbered like its id.
C35_Witness ==
    /\ last.op = "replace"
    /\ last.ids0[last.id] = NONE
    /\ module_ids[last.id] # NONE
    /\ \E id \in Bound(last.ids0) : last.ids0[id] # id
    /\ \E id \in Slots : module_ids[id] = NONE


\* C36: whenever order_set is true the occupied slots are the slots
\* 0 .. k-1: no empty slot lies below an occupied one.
C36_CachedPrefix ==
    order_set => \A i \in Occupied(modules) : \A j \in 0 .. (i - 1) : j \in Occupied(modules)

\* The order was cached by a discovery tick on a processor that had an empty
\* slot below an occupied one.
C36_Witness ==
    /\ order_set
    /\ last.op = "process" /\ last.path = "discovery"
    /\ \E i \in Occupied(last.mods0) : \E j \in 0 .. (i - 1) : j \notin Occupied(last.mods0)
    /\ Occupied(modules) # {}


\* C37: there are as many unbound ids as empty slots, so insert_module never
\* finds an unbound id without finding an empty slot, and it returns None
\* only on a processor whose slots are all occupied.
C37_NoMismatch ==
    /\ Cardinality(Slots \ Bound(module_ids)) = Cardinality(Slots \ Occupied(modules))
    /\ ~(FirstUnboundId(module_ids) # NONE /\ FirstEmptySlot(modules) = NONE)
    /\ (last.op = "insert" /\ last.res = NONE) =>
           /\ Occupied(last.mods0) = Slots
           /\ Bound(last.ids0) = Slots

\* insert_module returned None, on a processor whose modules a discovery
\* tick had arranged.
C37_Witness ==
    /\ last.op = "insert" /\ last.res = NONE
    /\ ticks > 0
    /\ Occupied(modules) = Slots


\* The number of slots of mods that hold the module m.
Copies(mods, m) == Cardinality({i \in Slots : mods[i] = m})

\* C38: process_modules neither loses nor duplicates a module: every module
\* is held in as many slots after the call as before it, on both paths.
C38_SameModules ==
    (last.op = "process") =>
        /\ \A t \in Tags : Copies(modules, wiring[t]) = Copies(last.mods0, wiring[t])
        /\ Cardinality(Occupied(modules)) = Cardinality(Occupied(last.mods0))

\* A discovery tick that moved modules to other slots, the greedy pass
\* placing one and the residual pass another.
C38_Witness ==
    /\ last.op = "process" /\ last.path = "discovery"
    /\ modules # last.mods0
    /\ last.residual # {}
    /\ Len(last.order) > Cardinality(last.residual)


\* C39: replace_module(m, id) with id < N leaves get_module(j) as it was for
\* every other id j and leaves the binding of every other id as it was; when
\* id was bound already, the whole id table stays as it was.
C39_ReplaceFrame ==
    (last.op = "replace") =>
        /\ \A j \in Slots \ {last.id} :
              /\ GetModule(modules, module_ids, j) = GetModule(last.mods0, last.ids0, j)
              /\ module_ids[j] = last.ids0[j]
        /\ last.ids0[last.id] # NONE => module_ids = last.ids0

\* replace_module on an unbound id, stored in a slot numbered otherwise,
\* while the slot numbered like the id holds the module of another id.
C39_Witness ==
    /\ last.op = "replace"
    /\ last.ids0[last.id] = NONE
    /\ module_ids[last.id] \notin {NONE, last.id}
    /\ \E j \in Slots \ {last.id} : last.ids0[j] = last.id


\* C40: the greedy pass ends at a fixpoint: when the residual pass starts,
\* is_ready is false for every module not yet processed, and every module
\* whose is_ready answered true in a scan was processed exactly once, in the
\* greedy pass and in the whole tick.
C40_GreedyFixpoint ==
    (last.op = "process" /\ last.path = "discovery") =>
        LET g == GreedyEnd IN
        /\ ~g.diverged
        /\ \A index \in Slots :
              LET m == GetModule(last.mods0, last.ids0, index)
              IN  (m # NoModule /\ ~g.processed[index]) => ~IsReady(m, g.pb)
        /\ \A k \in 1 .. Len(g.asked) :
              g.asked[k][2] =>
                  /\ Count(g.order, g.asked[k][1]) = 1
                  /\ Count(last.order, g.asked[k][1]) = 1
                  /\ g.processed[IdIn(last.mods0, last.ids0, g.asked[k][1])]

\* A discovery tick whose greedy pass processed modules in two scans or more
\* and left a module to the residual pass.
C40_Witness ==
    /\ last.op = "process" /\ last.path = "discovery"
    /\ last.scans >= 3
    /\ ScanOrder(2) # <<>>
    /\ last.residual # {}

====
